---- MODULE Spec2Model ----
(***************************************************************************)
(* Model of memory-profile-langraph.py: a one-node LangGraph workflow      *)
(* ("joke" -> END) compiled with an in-memory checkpointer, the profiled   *)
(* run_graph function and the five-iteration main loop.                    *)
(*                                                                         *)
(* Python strings are modelled as sequences of one-character strings, so   *)
(* that formatting (f-strings, the prompt template) is real concatenation  *)
(* and two strings are equal exactly when their characters are.            *)
(***************************************************************************)
EXTENDS Integers, Sequences, FiniteSets

VARIABLES
    pc,         \* control position of the single Python thread
    i,          \* loop variable of the main loop (line 59)
    topic,      \* run_graph parameter topic
    thread_id,  \* run_graph parameter thread_id
    cur_node,   \* node the graph engine runs next in the current invocation
    state,      \* State["messages"] held by the graph during an invocation
    result,     \* local variable result of run_graph (messages of the final state)
    store,      \* MemorySaver contents: messages checkpointed per thread key
    output,     \* lines printed to stdout
    trace,      \* history: graph invocations and forced collections, in order
    nodeLog,    \* history: every execution of joke_node
    callLog,    \* history: every run_graph call that returned
    nodeRuns,   \* history: executions of joke_node in the current invocation
    caller      \* where run_graph returns to: the main loop or an arbitrary caller

vars == <<pc, i, topic, thread_id, cur_node, state, result, store, output,
          trace, nodeLog, callLog, nodeRuns, caller>>

-----------------------------------------------------------------------------
(* Bounds of the model *)

\* run_graph calls made by an arbitrary caller (CallSpec)
MaxCalls == 3
\* thread identifiers thread_0 .. thread_<NumThreads-1> an arbitrary caller may use
NumThreads == 1
\* longest messages list joke_node is applied to directly (NodeSpec)
MaxLen == 3

-----------------------------------------------------------------------------
(* Strings *)

Digit(n) == CASE n = 0 -> "0" [] n = 1 -> "1" [] n = 2 -> "2" [] n = 3 -> "3"
              [] n = 4 -> "4" [] n = 5 -> "5" [] n = 6 -> "6" [] n = 7 -> "7"
              [] n = 8 -> "8" [] n = 9 -> "9"

\* str(n) of a natural number, as the f-strings of line 60 format it
RECURSIVE Str(_)
Str(n) == IF n < 10 THEN <<Digit(n)>> ELSE Str(n \div 10) \o <<Digit(n % 10)>>

\* "elephants": default of run_graph's topic and fallback topic of joke_node
Elephants == <<"e", "l", "e", "p", "h", "a", "n", "t", "s">>

\* "cats": another topic an arbitrary caller may pass
Cats == <<"c", "a", "t", "s">>

\* "test": default of run_graph's thread_id
DefaultThreadId == <<"t", "e", "s", "t">>

\* the fallback topic of joke_node
DefaultTopic == Elephants

\* f"elephants {i}"
MainTopic(n) == Elephants \o <<" ">> \o Str(n)

\* f"thread_{i}"
\* (faulty variant: identifiers repeat every second iteration)
MainThreadIdWrong(n) == <<"t", "h", "r", "e", "a", "d", "_">> \o Str(n % 2)
MainThreadId(n) == <<"t", "h", "r", "e", "a", "d", "_">> \o Str(n)

\* ChatPromptTemplate.from_template("Tell me a joke about {topic}.") formatted
PromptPrefix == <<"T", "e", "l", "l", " ", "m", "e", " ", "a", " ", "j", "o",
                  "k", "e", " ", "a", "b", "o", "u", "t", " ">>
FormatPrompt(t) == PromptPrefix \o t \o <<".">>

-----------------------------------------------------------------------------
(* Messages *)

\* A message: its class, its content, and (history only) the thread identifier
\* under which it was submitted or produced.
HumanMessage(content, origin) ==
    [type |-> "human", content |-> content, origin |-> origin]
AIMessage(content, origin) ==
    [type |-> "ai", content |-> content, origin |-> origin]

\* The replies the remote model may give; a call may also fail.
Responses == {<<"h", "a">>, <<"h", "o">>}

None == <<"None">>
END == "__end__"

\* range(5) of the main loop
LoopCount == 5

-----------------------------------------------------------------------------
(* The graph *)

\* State.messages: Annotated[list, operator.add] -- the reducer of the channel
\* (faulty variant: no reducer, an update replaces the list)
ReducerReplace(old, update) == update
Reducer(old, update) == old \o update

\* joke_node, line 34: the topic
\* (faulty variants: the first message is read; the fallback is empty)
joke_topic_first(messages) ==
    IF messages # <<>> THEN messages[1].content ELSE DefaultTopic
joke_topic_nodefault(messages) ==
    IF messages # <<>> THEN messages[Len(messages)].content ELSE <<>>
joke_topic(messages) ==
    IF messages # <<>> THEN messages[Len(messages)].content ELSE DefaultTopic

\* joke_node, line 38: the update returned for the model's result
\* (faulty variant: the whole list is returned again with the result)
joke_update_whole(messages, res) == messages \o <<res>>
joke_update(messages, res) == <<res>>

\* workflow.set_entry_point("joke")
EntryPoint == "joke"

\* workflow.add_edge("joke", END)
\* (faulty variant: the edge leads back to the node)
NextNodeLoop(node) == "joke"
NextNode(node) == CASE node = "joke" -> END

\* config = {"configurable": {"thread_id": thread_id}}: the checkpoint key
\* (faulty variant: every call uses the default key)
ConfigKeyShared(tid) == DefaultThreadId
ConfigKey(tid) == tid

\* initial_state = {"messages": [HumanMessage(content=topic)]}
initial_state(t, tid) == <<HumanMessage(t, tid)>>

\* The checkpointer loads the messages saved under a key (none: empty list)
\* (faulty variant: compiled without the checkpointer, nothing is loaded)
LoadCheckpointFresh(st, key) == <<>>
LoadCheckpoint(st, key) == st[key]

\* result["messages"][-1].content, the printed line
\* (faulty variant: the first message, the topic, is printed)
PrintedFirst(res) == res[1].content
Printed(res) == res[Len(res)].content

\* Where control goes when joke_node raises: nothing catches it
\* (faulty variant: run_graph swallows the exception and goes on to line 56)
OnErrorCaught == "gc"
OnError == "crashed"

\* Thread identifiers
CallerThreadIds == {DefaultThreadId} \cup {MainThreadId(n) : n \in 0..(NumThreads - 1)}
MainThreadIds == {MainThreadId(n) : n \in 0..(LoopCount - 1)}
ThreadIds == CallerThreadIds \cup MainThreadIds
CallerTopics == {Elephants, Cats}

-----------------------------------------------------------------------------
(* Operations *)

Invocations == Len(SelectSeq(trace, LAMBDA e : e.ev = "invoke"))
Collections == Len(SelectSeq(trace, LAMBDA e : e.ev = "gc"))

InitCommon ==
    /\ i = 0
    /\ topic = None
    /\ thread_id = None
    /\ cur_node = None
    /\ state = <<>>
    /\ result = None
    /\ store = [k \in ThreadIds |-> <<>>]
    /\ output = <<>>
    /\ trace = <<>>
    /\ nodeLog = <<>>
    /\ callLog = <<>>
    /\ nodeRuns = 0

\* line 59-60: the next iteration of the loop calls run_graph
MainLoopCall ==
    /\ pc = "main"
    /\ i < LoopCount
    /\ topic' = MainTopic(i)
    /\ thread_id' = MainThreadId(i)
    /\ pc' = "invoke"
    /\ UNCHANGED <<i, cur_node, state, result, store, output, trace, nodeLog,
                   callLog, nodeRuns, caller>>

\* line 59: range(5) is exhausted, the script ends
MainLoopExit ==
    /\ pc = "main"
    /\ i >= LoopCount
    /\ pc' = "done"
    /\ UNCHANGED <<i, topic, thread_id, cur_node, state, result, store, output,
                   trace, nodeLog, callLog, nodeRuns, caller>>

\* an arbitrary caller calls run_graph, with or without the defaults
AnyCall ==
    /\ pc = "caller"
    /\ Invocations < MaxCalls
    /\ \E t \in CallerTopics, tid \in CallerThreadIds :
          /\ topic' = t
          /\ thread_id' = tid
    /\ pc' = "invoke"
    /\ UNCHANGED <<i, cur_node, state, result, store, output, trace, nodeLog,
                   callLog, nodeRuns, caller>>

\* lines 51-53: graph.invoke starts: the checkpoint of the thread is loaded,
\* the input is added through the reducer and checkpointed
GraphInvoke ==
    /\ pc = "invoke"
    /\ LET key == ConfigKey(thread_id)
           s == Reducer(LoadCheckpoint(store, key), initial_state(topic, thread_id))
       IN /\ state' = s
          /\ store' = [store EXCEPT ![key] = s]
    /\ cur_node' = EntryPoint
    /\ nodeRuns' = 0
    /\ trace' = Append(trace, [ev |-> "invoke", thread_id |-> thread_id, topic |-> topic])
    /\ pc' = "graph"
    /\ UNCHANGED <<i, topic, thread_id, result, output, nodeLog, callLog, caller>>

\* lines 33-38: joke_node runs and the model replies; the update is added
\* through the reducer and checkpointed; the edge gives the next node
JokeNodeOk ==
    /\ pc = "graph"
    /\ cur_node = "joke"
    /\ \E r \in Responses :
          LET t == joke_topic(state)
              res == AIMessage(r, thread_id)
              upd == joke_update(state, res)
              s == Reducer(state, upd)
          IN /\ state' = s
             /\ store' = [store EXCEPT ![ConfigKey(thread_id)] = s]
             /\ nodeLog' = Append(nodeLog,
                    [seen |-> state, topic |-> t, prompt |-> FormatPrompt(t),
                     ok |-> TRUE, result |-> res, update |-> upd, thread_id |-> thread_id, i |-> i])
    /\ nodeRuns' = nodeRuns + 1
    /\ cur_node' = NextNode(cur_node)
    /\ UNCHANGED <<pc, i, topic, thread_id, result, output, trace, callLog, caller>>

\* lines 33-37: joke_node runs and the model call raises
JokeNodeFail ==
    /\ pc = "graph"
    /\ cur_node = "joke"
    /\ LET t == joke_topic(state)
       IN nodeLog' = Append(nodeLog,
              [seen |-> state, topic |-> t, prompt |-> FormatPrompt(t),
               ok |-> FALSE, result |-> None, update |-> None, thread_id |-> thread_id, i |-> i])
    /\ nodeRuns' = nodeRuns + 1
    /\ pc' = OnError
    /\ UNCHANGED <<i, topic, thread_id, cur_node, state, result, store, output,
                   trace, callLog, caller>>

\* line 53: the graph reached END and graph.invoke returns the final state
GraphEnd ==
    /\ pc = "graph"
    /\ cur_node = END
    /\ result' = state
    /\ pc' = "print"
    /\ UNCHANGED <<i, topic, thread_id, cur_node, state, store, output, trace,
                   nodeLog, callLog, nodeRuns, caller>>

\* line 54: print(result["messages"][-1].content)
PrintJoke ==
    /\ pc = "print"
    /\ output' = Append(output, Printed(result))
    /\ pc' = "del"
    /\ UNCHANGED <<i, topic, thread_id, cur_node, state, result, store, trace,
                   nodeLog, callLog, nodeRuns, caller>>

\* line 55: del result
Del ==
    /\ pc = "del"
    /\ result' = None
    /\ pc' = "gc"
    /\ UNCHANGED <<i, topic, thread_id, cur_node, state, store, output, trace,
                   nodeLog, callLog, nodeRuns, caller>>

\* line 56: gc.collect(), then run_graph returns to its caller; in the main
\* loop the for statement moves on to the next value of range(5).
\* The checkpointer is a module global, so nothing it holds is collected.
GcCollect ==
    /\ pc = "gc"
    /\ trace' = Append(trace, [ev |-> "gc", thread_id |-> thread_id, topic |-> topic])
    /\ callLog' = Append(callLog, [thread_id |-> thread_id, topic |-> topic,
                                   printed |-> output[Len(output)]])
    /\ i' = IF caller = "main" THEN i + 1 ELSE i
    /\ pc' = caller
    /\ UNCHANGED <<topic, thread_id, cur_node, state, result, store, output,
                   nodeLog, nodeRuns, caller>>

\* joke_node called directly on a state; the model replies
DirectJokeNodeOk ==
    /\ pc = "direct"
    /\ \E r \in Responses :
          LET t == joke_topic(state)
              res == AIMessage(r, thread_id)
              upd == joke_update(state, res)
          IN /\ result' = upd
             /\ nodeLog' = Append(nodeLog,
                    [seen |-> state, topic |-> t, prompt |-> FormatPrompt(t),
                     ok |-> TRUE, result |-> res, update |-> upd, thread_id |-> thread_id, i |-> i])
    /\ nodeRuns' = nodeRuns + 1
    /\ pc' = "done"
    /\ UNCHANGED <<i, topic, thread_id, cur_node, state, store, output, trace,
                   callLog, caller>>

\* joke_node called directly on a state; the model call raises
DirectJokeNodeFail ==
    /\ pc = "direct"
    /\ LET t == joke_topic(state)
       IN nodeLog' = Append(nodeLog,
              [seen |-> state, topic |-> t, prompt |-> FormatPrompt(t),
               ok |-> FALSE, result |-> None, update |-> None, thread_id |-> thread_id, i |-> i])
    /\ nodeRuns' = nodeRuns + 1
    /\ pc' = OnError
    /\ UNCHANGED <<i, topic, thread_id, cur_node, state, result, store, output,
                   trace, callLog, caller>>

-----------------------------------------------------------------------------
(* Specifications *)

\* The script: python memory-profile-langraph.py
Init == InitCommon /\ pc = "main" /\ caller = "main"
Next == MainLoopCall \/ MainLoopExit \/ GraphInvoke \/ JokeNodeOk \/ JokeNodeFail
           \/ GraphEnd \/ PrintJoke \/ Del \/ GcCollect
Spec == Init /\ [][Next]_vars

\* The script, with the progress a sequential synchronous program makes
FairSpec == Init /\ [][Next]_vars /\ WF_vars(Next)

\* run_graph called any number of times with any topics and thread identifiers
InitCalls == InitCommon /\ pc = "caller" /\ caller = "caller"
NextCalls == AnyCall \/ GraphInvoke \/ JokeNodeOk \/ JokeNodeFail
                \/ GraphEnd \/ PrintJoke \/ Del \/ GcCollect
CallSpec == InitCalls /\ [][NextCalls]_vars

\* joke_node applied to an arbitrary state
NodeContents == {Elephants, Cats, <<"h", "a">>}
NodeMessages == {HumanMessage(c, DefaultThreadId) : c \in NodeContents}
                   \cup {AIMessage(c, DefaultThreadId) : c \in NodeContents}
RECURSIVE SeqsUpTo(_, _)
SeqsUpTo(S, n) ==
    IF n = 0 THEN {<<>>}
    ELSE LET shorter == SeqsUpTo(S, n - 1)
         IN shorter \cup {Append(s, m) : s \in {x \in shorter : Len(x) = n - 1}, m \in S}
InitNode ==
    /\ pc = "direct"
    /\ caller = "direct"
    /\ i = 0
    /\ topic = None
    /\ thread_id = DefaultThreadId
    /\ cur_node = None
    /\ state \in SeqsUpTo(NodeMessages, MaxLen)
    /\ result = None
    /\ store = [k \in ThreadIds |-> <<>>]
    /\ output = <<>>
    /\ trace = <<>>
    /\ nodeLog = <<>>
    /\ callLog = <<>>
    /\ nodeRuns = 0
NextNodeCall == DirectJokeNodeOk \/ DirectJokeNodeFail
NodeSpec == InitNode /\ [][NextNodeCall]_vars

-----------------------------------------------------------------------------
(* Properties *)

IsPrefix(a, b) == Len(a) <= Len(b) /\ SubSeq(b, 1, Len(a)) = a
Last(q) == q[Len(q)]
Failed == \E k \in 1..Len(nodeLog) : ~nodeLog[k].ok
Thread_(d) == <<"t", "h", "r", "e", "a", "d", "_", d>>
ElephantsN(d) == <<"e", "l", "e", "p", "h", "a", "n", "t", "s", " ", d>>
Digits == <<"0", "1", "2", "3", "4">>
JokeAbout(t) ==
    <<"T", "e", "l", "l", " ", "m", "e", " ", "a", " ", "j", "o", "k", "e", " ",
      "a", "b", "o", "u", "t", " ">> \o t \o <<".">>

\* C1: whenever joke_node runs on an empty messages list, the topic put into
\* the prompt is exactly "elephants" (the prompt sent is "Tell me a joke
\* about elephants.").
C1_EmptyUsesDefault ==
    \A k \in 1..Len(nodeLog) :
        nodeLog[k].seen = <<>> =>
            /\ nodeLog[k].topic = <<"e", "l", "e", "p", "h", "a", "n", "t", "s">>
            /\ nodeLog[k].prompt =
                   JokeAbout(<<"e", "l", "e", "p", "h", "a", "n", "t", "s">>)
C1_Witness ==
    /\ Len(nodeLog) = 1
    /\ nodeLog[1].seen = <<>>
    /\ nodeLog[1].ok

\* C2: whenever joke_node runs on a non-empty messages list, of any length,
\* the topic put into the prompt is the content of the last message.
C2_NonEmptyUsesLast ==
    \A k \in 1..Len(nodeLog) :
        LET seen == nodeLog[k].seen
        IN seen # <<>> =>
              /\ nodeLog[k].topic = seen[Len(seen)].content
              /\ nodeLog[k].prompt = JokeAbout(seen[Len(seen)].content)
C2_Witness ==
    /\ Len(nodeLog) = 1
    /\ nodeLog[1].ok
    /\ Len(nodeLog[1].seen) = 3
    /\ nodeLog[1].seen[1].content = Elephants
    /\ nodeLog[1].seen[2].content = <<"h", "a">>
    /\ nodeLog[1].seen[3].content = Cats
    /\ nodeLog[1].topic = Cats

\* C3: the messages list is append-only: in every step the list stored for
\* each thread before the step is a prefix of the list stored after it, and
\* the list a node execution starts from is a prefix of the list it leaves.
C3_AppendOnly ==
    [][/\ \A k \in ThreadIds : IsPrefix(store[k], store'[k])
       /\ Len(nodeLog') # Len(nodeLog) => IsPrefix(state, state')]_vars
C3_Witness ==
    /\ Len(store[DefaultThreadId]) >= 4
    /\ Len(nodeLog) >= 2

\* C4: each execution of joke_node that returns, returns an update of exactly
\* one message, the model's result; the messages list grows by exactly one
\* and its last element is that result.
C4_OneMessagePerRun ==
    [][(Len(nodeLog') # Len(nodeLog) /\ Last(nodeLog').ok) =>
          /\ Len(nodeLog') = Len(nodeLog) + 1
          /\ Len(Last(nodeLog').update) = 1
          /\ Last(nodeLog').update[1] = Last(nodeLog').result
          /\ Last(nodeLog').result.type = "ai"
          /\ Len(state') = Len(state) + 1
          /\ Last(state') = Last(nodeLog').result
          /\ Len(store'[thread_id]) = Len(store[thread_id]) + 1
          /\ Last(store'[thread_id]) = Last(nodeLog').result]_vars
C4_Witness ==
    /\ Len(nodeLog) >= 2
    /\ \A k \in 1..Len(nodeLog) : nodeLog[k].ok /\ nodeLog[k].thread_id = DefaultThreadId
    /\ Len(store[DefaultThreadId]) = 4

\* C5: a run_graph call with thread identifier t changes only the stored
\* state of t, and the messages the node sees were all submitted or produced
\* under t.
C5_ThreadIsolation ==
    [][/\ \A k \in ThreadIds : k # thread_id' => store'[k] = store[k]
       /\ \A n \in 1..Len(nodeLog') :
             \A m \in 1..Len(nodeLog'[n].seen) :
                 nodeLog'[n].seen[m].origin = nodeLog'[n].thread_id]_vars
C5_Witness ==
    /\ Len(store[DefaultThreadId]) >= 2
    /\ Len(store[Thread_("0")]) >= 2
    /\ Len(nodeLog) = 3
    /\ Len(nodeLog[3].seen) = 3

\* C6: when no call fails the script invokes the graph exactly five times, in
\* the order i = 0..4, with the pairwise distinct thread identifiers
\* thread_0..thread_4, and a forced collection follows each invocation before
\* the next one starts.
C6_FiveInvocationsWithGc ==
    /\ \A k \in 1..Len(trace) :
          IF k % 2 = 1
          THEN /\ trace[k].ev = "invoke"
               /\ trace[k].thread_id = Thread_(Digits[(k + 1) \div 2])
               /\ trace[k].topic = ElephantsN(Digits[(k + 1) \div 2])
          ELSE /\ trace[k].ev = "gc"
               /\ trace[k].thread_id = trace[k - 1].thread_id
    /\ \A a, b \in 1..Len(trace) :
          (a # b /\ trace[a].ev = "invoke" /\ trace[b].ev = "invoke")
              => trace[a].thread_id # trace[b].thread_id
    /\ Len(trace) <= 10
    /\ pc = "done" => Len(trace) = 10
    /\ (pc = "main" /\ ~Failed) => Len(trace) = 2 * i
C6_Witness ==
    /\ pc = "done"
    /\ Len(trace) = 10
    /\ trace[9].thread_id = Thread_("4")

\* C7: a failing model call is neither caught nor retried: when it fails in
\* iteration i the script stops there; the node ran once in that iteration,
\* nothing was printed for it, its forced collection did not happen and no
\* later iteration ever runs.
C7_FailurePropagates ==
    [][/\ pc = "crashed" => FALSE
       /\ Failed' =>
             /\ pc' = "crashed"
             /\ ~Last(nodeLog').ok
             /\ \A k \in 1..(Len(nodeLog') - 1) : nodeLog'[k].ok
             /\ Len(nodeLog') = i' + 1
             /\ Invocations' = i' + 1
             /\ Len(output') = i'
             /\ Collections' = i'
             /\ Len(callLog') = i'
             /\ \A n \in (i' + 1)..(LoopCount - 1) : store'[MainThreadId(n)] = <<>>]_vars
C7_Witness ==
    /\ pc = "crashed"
    /\ i = 2
    /\ Len(output) = 2

\* C8: every graph invocation whose model call succeeds runs the joke node
\* exactly once (one model call) and then reaches END, never re-entering the
\* node; the script terminates, and when it has run to the end of the loop
\* it has made five invocations.
C8_SingleNodeThenEnd ==
    /\ [](/\ nodeRuns <= 1
          /\ pc \in {"print", "del", "gc"} => (nodeRuns = 1 /\ cur_node = END)
          /\ (pc = "graph" /\ nodeRuns = 1) => cur_node = END
          /\ Len(nodeLog) <= Invocations
          /\ pc \in {"print", "del", "gc", "main", "done"} =>
                Len(nodeLog) = Invocations
          /\ pc = "done" => (Invocations = 5 /\ Len(nodeLog) = 5))
    /\ <>(pc = "done" \/ Failed)
    /\ [](pc = "done" => [](pc = "done"))
C8_Witness ==
    /\ pc = "done"
    /\ Len(nodeLog) = 5
    /\ Invocations = 5

C9_NodeAndOutput ==
    /\ \A k \in 1..Len(nodeLog) :
          /\ nodeLog[k].seen # <<>>
          /\ Last(nodeLog[k].seen).type = "human"
          /\ Last(nodeLog[k].seen).content = ElephantsN(Digits[k])
          /\ nodeLog[k].i = k - 1
          /\ nodeLog[k].topic = ElephantsN(Digits[k])
          /\ nodeLog[k].topic # <<"e", "l", "e", "p", "h", "a", "n", "t", "s">>
    /\ \A k \in 1..Len(output) :
          /\ nodeLog[k].ok
          /\ nodeLog[k].prompt = JokeAbout(ElephantsN(Digits[k]))
          /\ output[k] = nodeLog[k].result.content
          /\ output[k] # ElephantsN(Digits[k])
TwoMessages(n) ==
    /\ Len(store[Thread_(Digits[n + 1])]) = 2
    /\ store[Thread_(Digits[n + 1])][1].type = "human"
    /\ store[Thread_(Digits[n + 1])][1].content = ElephantsN(Digits[n + 1])
    /\ store[Thread_(Digits[n + 1])][2] = nodeLog[n + 1].result

RECURSIVE Expected(_, _)
Expected(tid, n) ==
    IF n = 0 THEN <<>>
    ELSE IF callLog[n].thread_id = tid
         THEN Expected(tid, n - 1)
                  \o <<HumanMessage(callLog[n].topic, tid), nodeLog[n].result>>
         ELSE Expected(tid, n - 1)
CallsOn(tid) == Len(SelectSeq(callLog, LAMBDA c : c.thread_id = tid))

\* C10: after k successful run_graph calls with one thread identifier the
\* thread's stored list has exactly 2k messages, alternating human topic and
\* model result in call order; the stored list never shrinks (del result and
\* the forced collection remove nothing); and the topic used in the k-th call
\* is the topic passed to that call.
C10_StateRetained ==
    [][/\ \A tid \in ThreadIds : Len(store'[tid]) >= Len(store[tid])
       /\ pc' = "caller" =>
             /\ \A tid \in ThreadIds :
                   /\ Len(store'[tid]) = 2 * CallsOn(tid)'
                   /\ store'[tid] = Expected(tid, Len(callLog))'
             /\ \A k \in 1..Len(callLog') :
                   /\ nodeLog'[k].topic = callLog'[k].topic
                   /\ nodeLog'[k].thread_id = callLog'[k].thread_id
                   /\ nodeLog'[k].result.content = callLog'[k].printed]_vars
C10_Witness ==
    /\ pc = "caller"
    /\ CallsOn(DefaultThreadId) = 3
    /\ Len(store[DefaultThreadId]) = 6
    /\ callLog[1].topic # callLog[3].topic

====
